---- MODULE Spec2Model ----
(***************************************************************************)
(* Model of the Datadog utilities:                                         *)
(*   - the multi-org user provisioning Lambda                              *)
(*     (user-inveite-and-disable/src/app.py), specification Spec, and      *)
(*     TimeoutSpec for a platform that may never answer;                   *)
(*   - the pending-user report Lambda                                      *)
(*     (user-pending-check/src/app/lambda_function.py), ReportSpec;        *)
(*   - the monitor export/import script                                    *)
(*     (scripts/datadog_export_import_monitor.py), MonitorSpec.            *)
(* The three programs share no state: each specification moves the         *)
(* variables of its program and leaves the others as Init set them.        *)
(*                                                                         *)
(* Strings the code inspects character by character (strip, lower,         *)
(* endswith, unquote_plus) are sequences of one-character strings.         *)
(* Opaque identifiers (credentials, role ids, user ids) are TLA+ strings.  *)
(***************************************************************************)
EXTENDS Integers, Sequences, FiniteSets, TLC

\* ------------------------------------------------------------------ bounds
MaxRecords == 2
MaxRows == 2
MaxPages == 3
MaxCsvRows == 2

\* ------------------------------------------------------- string functions
\* Python's None, as DictReader's restval for a row shorter than the header.
\* It is no string of the model: every modelled string is a sequence of
\* one-character strings.
None == <<"None">>

IsSpace(c) == c = " "

\* str.strip(): leading and trailing whitespace removed.
RECURSIVE LStrip(_)
LStrip(s) ==
    IF s # <<>> /\ IsSpace(Head(s)) THEN LStrip(Tail(s)) ELSE s

RECURSIVE RStrip(_)
RStrip(s) ==
    IF s # <<>> /\ IsSpace(s[Len(s)]) THEN RStrip(SubSeq(s, 1, Len(s) - 1)) ELSE s

Strip(s) == RStrip(LStrip(s))

LowerChar(c) ==
    CASE c = "A" -> "a"
      [] c = "B" -> "b"
      [] c = "R" -> "r"
      [] c = "Q" -> "q"
      [] c = "P" -> "p"
      [] OTHER -> c

\* str.lower()
Lower(s) == [i \in DOMAIN s |-> LowerChar(s[i])]

\* str.endswith(suffix)
EndsWith(s, suffix) ==
    /\ Len(s) >= Len(suffix)
    /\ SubSeq(s, Len(s) - Len(suffix) + 1, Len(s)) = suffix

\* The percent escapes that occur in the modelled event keys.
HexDecode(h) ==
    CASE h = <<"2", "E">> -> "."
      [] h = <<"2", "e">> -> "."
      [] h = <<"5", "F">> -> "_"
      [] OTHER -> "?"

IsEscape(s) ==
    /\ Len(s) >= 3
    /\ s[1] = "%"
    /\ HexDecode(<<s[2], s[3]>>) # "?"

\* urllib.parse.unquote: %xx escapes replaced, anything else kept.
RECURSIVE unquote(_)
unquote(s) ==
    IF s = <<>> THEN <<>>
    ELSE IF IsEscape(s)
         THEN <<HexDecode(<<s[2], s[3]>>)>> \o unquote(SubSeq(s, 4, Len(s)))
         ELSE <<Head(s)>> \o unquote(Tail(s))

\* urllib.parse.unquote_plus: plus signs become spaces, then unquote.
unquote_plus(s) ==
    unquote([i \in DOMAIN s |-> IF s[i] = "+" THEN " " ELSE s[i]])

\* ------------------------------------------------------------- constants
CREATE_SUFFIX ==
    <<"c", "r", "e", "a", "t", "e", "_", "u", "s", "e", "r", ".", "c", "s", "v">>

DELETE_SUFFIX ==
    <<"d", "e", "l", "e", "t", "e", "_", "u", "s", "e", "r", ".", "c", "s", "v">>

\* Object keys as they arrive in the S3 event (URL-encoded).
EventKeys ==
    { CREATE_SUFFIX,
      <<"i", "n", "/">> \o DELETE_SUFFIX,
      <<"c", "r", "e", "a", "t", "e", "_", "u", "s", "e", "r", "%", "2", "E", "c", "s", "v">>,
      CREATE_SUFFIX \o <<".", "b", "a", "k">>,
      <<"d", "e", "l", "e", "t", "e", "+", "u", "s", "e", "r", ".", "c", "s", "v">>,
      <<"u", "s", "e", "r", ".", "c", "s", "v">> }

\* The tenant map built from the secret: org name -> (api key, app key).
OrgNames == { <<"x">>, <<"y">> }

org_map ==
    [o \in OrgNames |-> IF o = <<"x">> THEN <<"api_x", "app_x">> ELSE <<"api_y", "app_y">>]

\* ------------------------------------------------------------- CSV input
\* A row as csv.DictReader yields it: a dict over the header's fields.  A
\* field whose cell the line lacks (a line with fewer cells than the header)
\* holds restval, None; a column the header lacks reads as "" through
\* row.get(field, ""), like an empty cell.
EmailCells == { None, <<>>, <<" ">>, <<"a">>, <<" ", "A">> }
NameCells == { None, <<>>, <<" ">>, <<"n", " ">> }
OrgCells == { None, <<>>, <<"x">>, <<"y", " ">>, <<"z">> }
RoleCells == { None, <<>>, <<" ">>, <<"R">>, <<"r", " ">> }

BaseRow == [email |-> <<"a">>, name |-> <<>>, org |-> <<"x">>, role |-> <<"R">>]

\* The rows of the input files: every email and name around a well-formed
\* row, and every org and role around it.
Rows ==
    { [BaseRow EXCEPT !.email = e, !.name = n] : e \in EmailCells, n \in NameCells }
    \cup { [BaseRow EXCEPT !.org = o, !.role = r] : o \in OrgCells, r \in RoleCells }

\* row.get(field, "")
RowGet(cells, field) == cells[field]

\* ---------------------------------------------------- remote platform
\* The roles of each organisation, as the platform may list them with the
\* organisation's credentials.
RolesOf(keys) ==
    IF keys = org_map[<<"x">>]
    THEN { [id |-> "rx1", name |-> <<"R">>], [id |-> "rx2", name |-> <<"r">>],
           [id |-> "rx3", name |-> <<"Q">>] }
    ELSE { [id |-> "ry1", name |-> <<"r">>], [id |-> "ry3", name |-> <<"Q">>] }

\* The sequences without repetition over the elements of S: a listing may
\* hold any of them in any order.
Listings(S) ==
    { l \in UNION { [1..k -> S] : k \in 0..Cardinality(S) } :
        \A i, j \in DOMAIN l : l[i] = l[j] => i = j }

\* Answers of GET /api/v2/roles made with the given credentials: the request
\* raises, or answers with a status and a body.
RoleResponses(keys) ==
    { [raises |-> TRUE, status |-> 0, data |-> <<>>] }
    \cup { [raises |-> FALSE, status |-> 403, data |-> <<>>] }
    \cup { [raises |-> FALSE, status |-> 200, data |-> d] : d \in Listings(RolesOf(keys)) }

\* The users of an organisation's directory.
Users ==
    { [id |-> "u1", email |-> <<"a">>], [id |-> "u2", email |-> <<"A">>],
      [id |-> "u3", email |-> <<"b">>] }

UserIds == { u.id : u \in Users }

\* Answers of the paginated user listing, consumed whole by list().
UserListings ==
    { [raises |-> TRUE, status |-> 0, data |-> <<>>] }
    \cup { [raises |-> FALSE, status |-> 200, data |-> d] : d \in Listings(Users) }

NoId == ""
NoOutcome == [msg |-> "", level |-> ""]
NoRow == [email |-> None, name |-> None, org |-> None, role |-> None]
NoKey == <<>>
NoMode == "None"
NoResp == [raises |-> FALSE, status |-> 0, data |-> <<>>]

VARIABLES
    pc,           \* where the handler is
    recordsLeft,  \* event records not yet iterated
    key,          \* decoded object key of the current record
    mode,         \* "create", "delete" or NoMode
    s3log,        \* S3 calls made for the current record
    rowsLeft,     \* rows of the current CSV not yet yielded by the reader
    row,          \* cells of the current row
    role_cache,   \* (org_name, role_name) -> role id, "" when absent
    user_id,      \* id returned by create_user / found by the user search
    calls,        \* remote platform calls made for the current row
    outcome,      \* log line that ended the current row
    resp          \* answer of the listing call just made (a local of the callee)

\* ------------------------------------------------ pending-status reporter
\* (user-pending-check/src/app/lambda_function.py)
\* PAGE_SIZE and the status the listing is filtered on.
PAGE_SIZE == 100
FirstParams == [size |-> PAGE_SIZE, status |-> "Pending"]
NoParams == [size |-> 0, status |-> "None"]

\* The URL of the first request, and the next links the platform hands out.
FirstUrl == "users"
NoUrl == "None"
NextLinks == { "next1", "next2" }

\* The secret's "orgs" object, as the tenant names in the order the
\* dictionary iterates them (keys as in org_map).
TenantMaps == { <<>>, << <<"x">> >>, << <<"x">>, <<"y">> >>, << <<"y">>, <<"x">> >> }

\* User objects a page can hold: two pending users (one without a name), and a
\* user of another status.
UserRecord(id, status, email, name) ==
    [id |-> id, attributes |-> [status |-> status, email |-> email, name |-> name]]

PendingA == UserRecord("p1", <<"P", "e", "n", "d", "i", "n", "g">>, <<"a">>, <<"n">>)
PendingB == UserRecord("p2", <<"P", "e", "n", "d", "i", "n", "g">>, <<"b">>, None)
ActiveC == UserRecord("p3", <<"A", "c", "t", "i", "v", "e">>, <<"c">>, <<"m">>)

\* The "data" arrays a page can carry.
PageData == { <<>>, <<PendingA>>, <<ActiveC, PendingB>>, <<PendingB, PendingA>> }

\* What requests.get + raise_for_status + res.json() give for one request:
\* a RequestException (connection error, no answer within the timeout, an
\* HTTP error status), or a body with its data and its links.next.
Errors == { "ConnectionError", "Timeout", "HTTPError" }
NoError == ""
Body(data, next) == [data |-> data, next |-> next]

NoResponse == [statusCode |-> 0, body |-> <<>>]
NoResult == [o \in {} |-> <<>>]

VARIABLES
    rpc,        \* where the report handler is
    orgs,       \* get_orgs(): tenant names in iteration order
    org_idx,    \* position of the tenant being listed
    url,        \* list_users: URL of the next request, NoUrl when there is none
    params,     \* list_users: query parameters of the next request
    requests,   \* list_users: requests made for the current tenant
    pages,      \* list_users: bodies received for the current tenant
    yielded,    \* list_users: users yielded for the current tenant
    pending,    \* fetch_invite_pending: users kept so far
    result,     \* lambda_handler: tenant name -> users kept
    response,   \* what lambda_handler returned
    error       \* the exception that left lambda_handler

report_vars ==
    <<rpc, orgs, org_idx, url, params, requests, pages, yielded, pending,
      result, response, error>>

batch_vars ==
    <<pc, recordsLeft, key, mode, s3log, rowsLeft, row,
      role_cache, user_id, calls, outcome, resp>>

\* ----------------------------------------- monitor export/import utility
\* (scripts/datadog_export_import_monitor.py)
READ_ONLY_KEYS ==
    { "id", "org_id", "created", "created_at", "modified", "deleted",
      "overall_state", "overall_state_modified", "matching_downtimes", "multi",
      "overall_state_transitions", "creator" }

WritableKeys == { "name", "type", "query" }

\* What a monitor attribute holds, as far as json.dump's default=str cares.
ValueKind(k) ==
    IF k \in {"created", "modified"} THEN "datetime"
    ELSE IF k \in {"id", "org_id"} THEN "int"
    ELSE "str"

Dict(keys) == [k \in keys |-> ValueKind(k)]

\* monitor.to_dict() of the monitors the platform returns.
MonitorDicts ==
    { Dict(READ_ONLY_KEYS \cup WritableKeys),
      Dict({"id", "org_id", "created", "creator", "overall_state"} \cup WritableKeys),
      Dict({"id", "name", "query"}) }

\* json.dump(data, ..., default=str): a value JSON cannot hold is written as
\* its str().
Dump(d) == [k \in DOMAIN d |-> IF d[k] = "datetime" THEN "str" ELSE d[k]]

\* Monitor ids, and the first cells of the CSV's data rows: an id, text that
\* is no number, or an empty row.
MonitorIds == { "1", "2" }
NotAnId == "abc"
EmptyRow == ""
CsvCells == MonitorIds \cup { NotAnId, EmptyRow }

\* The data rows of a CSV, up to MaxCsvRows of them.
RECURSIVE CsvFiles(_)
CsvFiles(n) ==
    IF n = 0 THEN { <<>> }
    ELSE CsvFiles(n - 1)
         \cup { Append(f, c) : f \in { g \in CsvFiles(n - 1) : Len(g) = n - 1 },
                               c \in CsvCells }

NoFiles == [i \in {} |-> <<>>]

VARIABLES
    mpc,        \* where the script is
    csv_rows,   \* export: data rows of the CSV not yet read
    fetched,    \* export: monitor id -> monitor.to_dict() as last fetched
    files,      \* the directory: monitor id -> content of <id>.json
    todo,       \* import: files matched by the pattern, not yet read
    posted      \* import: bodies sent to create_monitor by this run

monitor_vars == <<mpc, csv_rows, fetched, files, todo, posted>>

vars == <<batch_vars, report_vars, monitor_vars>>


\* ------------------------------------------------------ handler helpers
\* Mutant: the suffix is looked for anywhere in the key (in, not endswith).
Contains(s, sub) ==
    \E i \in 1..(Len(s) - Len(sub) + 1) : SubSeq(s, i, i + Len(sub) - 1) = sub

ModeOf_contains(k) ==
    IF Contains(k, CREATE_SUFFIX) THEN "create"
    ELSE IF Contains(k, DELETE_SUFFIX) THEN "delete"
    ELSE NoMode

\* mode = "create" if key.endswith("create_user.csv")
\*        else "delete" if key.endswith("delete_user.csv") else None
ModeOf(k) ==
    IF EndsWith(k, CREATE_SUFFIX) THEN "create"
    ELSE IF EndsWith(k, DELETE_SUFFIX) THEN "delete"
    ELSE NoMode

NoKeys == <<"", "">>

RowLocals(err, email, name, org_name, role_name, keys) ==
    [err |-> err, email |-> email, name |-> name, org_name |-> org_name,
     role_name |-> role_name, keys |-> keys]

\* Variant of NameOf that sends the name cell as it was read.
NameOf_raw(cells, email) ==
    LET n == RowGet(cells, "name")
    IN IF n = None \/ n = <<>> THEN email ELSE n

\* name = (row.get("name") or "").strip() or email
NameOf(cells, email) ==
    LET n == RowGet(cells, "name")
        s == IF n = None \/ n = <<>> THEN <<>> ELSE Strip(n)
    IN IF s # <<>> THEN s ELSE email

\* Mutant: an org missing from the secret falls back to the first org's keys.
ParseRow_default_org(cells) ==
    LET e == RowGet(cells, "email")
        o == RowGet(cells, "org")
        r == RowGet(cells, "role")
    IN IF e = None \/ o = None \/ r = None
       THEN RowLocals("AttributeError", <<>>, <<>>, <<>>, <<>>, NoKeys)
       ELSE IF Strip(e) = <<>>
       THEN RowLocals("MissingEmail", <<>>, <<>>, <<>>, <<>>, NoKeys)
       ELSE IF Strip(o) = <<>> \/ Strip(r) = <<>>
       THEN RowLocals("MissingOrgRole", Strip(e), NameOf(cells, Strip(e)), Strip(o), Strip(r), NoKeys)
       ELSE RowLocals("", Strip(e), NameOf(cells, Strip(e)), Strip(o), Strip(r),
                      IF Strip(o) \in DOMAIN org_map
                      THEN org_map[Strip(o)] ELSE org_map[<<"x">>])

\* The row's locals as the loop body computes them before any remote call,
\* and how that part ends: "" (go on), a logged rejection (continue), or
\* "AttributeError" (None.strip() raised; nothing in the handler catches it).
ParseRow(cells) ==
    LET e == RowGet(cells, "email")
        o == RowGet(cells, "org")
        r == RowGet(cells, "role")
    IN IF e = None
       THEN RowLocals("AttributeError", <<>>, <<>>, <<>>, <<>>, NoKeys)
       ELSE IF Strip(e) = <<>>
       THEN RowLocals("MissingEmail", <<>>, <<>>, <<>>, <<>>, NoKeys)
       ELSE IF o = None
       THEN RowLocals("AttributeError", Strip(e), NameOf(cells, Strip(e)), <<>>, <<>>, NoKeys)
       ELSE IF r = None
       THEN RowLocals("AttributeError", Strip(e), NameOf(cells, Strip(e)), Strip(o), <<>>, NoKeys)
       ELSE IF Strip(o) = <<>> \/ Strip(r) = <<>>
       THEN RowLocals("MissingOrgRole", Strip(e), NameOf(cells, Strip(e)), Strip(o), Strip(r), NoKeys)
       ELSE IF Strip(o) \notin DOMAIN org_map
       THEN RowLocals("UnknownOrg", Strip(e), NameOf(cells, Strip(e)), Strip(o), Strip(r), NoKeys)
       ELSE RowLocals("", Strip(e), NameOf(cells, Strip(e)), Strip(o), Strip(r), org_map[Strip(o)])

\* Variant of cache_key that keys the cache by the role name alone.
cache_key_role_only(cells) == << <<>>, ParseRow(cells).role_name >>

\* cache_key = (org_name, role_name)
cache_key(cells) == <<ParseRow(cells).org_name, ParseRow(cells).role_name>>

\* Every key a row can produce; role_cache is a defaultdict(str), so a key
\* never stored reads as "".
CacheKeys ==
    { <<Strip(o), Strip(r)>> : o \in OrgCells \ {None}, r \in RoleCells \ {None} }

EmptyCache == [k \in CacheKeys |-> ""]

\* Variant of NewCache that keeps the cache of the previous invocation, as a
\* module-level dictionary of a warm container would.
NewCache_global(cache) == cache

\* role_cache = defaultdict(str), a local of lambda_handler: whatever an
\* earlier invocation cached, the handler starts from the empty dictionary.
NewCache(cache) == EmptyCache

\* Mutant: the cache is never consulted.
CacheMiss_always(cache, k) == TRUE

\* if not role_cache[cache_key]: the role id has to be looked up
CacheMiss(cache, k) == cache[k] = ""

RoleResult(err, id) == [err |-> err, id |-> id]

RECURSIVE FirstRole(_, _)
FirstRole(data, role_name) ==
    IF data = <<>> THEN RoleResult("KeyError", "")
    ELSE IF Lower(Head(data).name) = Lower(role_name)
         THEN RoleResult("", Head(data).id)
         ELSE FirstRole(Tail(data), role_name)

\* Mutant: role names are compared as they are, without lower().
RECURSIVE FirstRole_exact(_, _)
FirstRole_exact(data, role_name) ==
    IF data = <<>> THEN RoleResult("KeyError", "")
    ELSE IF Head(data).name = role_name
         THEN RoleResult("", Head(data).id)
         ELSE FirstRole_exact(Tail(data), role_name)

get_role_id_exact(r, role_name) ==
    IF r.raises THEN RoleResult("TransportError", "")
    ELSE IF r.status >= 300 THEN RoleResult("RuntimeError", "")
    ELSE FirstRole_exact(r.data, role_name)

\* _get_role_id on the answer of the role listing
get_role_id(r, role_name) ==
    IF r.raises THEN RoleResult("TransportError", "")
    ELSE IF r.status >= 300 THEN RoleResult("RuntimeError", "")
    ELSE FirstRole(r.data, role_name)

NoUser == [id |-> NoId, email |-> <<>>]

\* Mutant: the first user of the listing is taken, whatever its email.
FindUser_first(users, email) ==
    IF users = <<>> THEN [id |-> NoId, email |-> <<>>] ELSE Head(users)

\* Variant of FindUser that takes the last user with the email.
FindUser_last(users, email) ==
    LET m == { i \in DOMAIN users : Lower(users[i].email) = Lower(email) }
    IN IF m = {} THEN [id |-> NoId, email |-> <<>>]
       ELSE users[CHOOSE i \in m : \A j \in m : j <= i]

\* next((u for u in users if u.attributes.email.lower() == email.lower()), None)
RECURSIVE FindUser(_, _)
FindUser(users, email) ==
    IF users = <<>> THEN NoUser
    ELSE IF Lower(Head(users).email) = Lower(email) THEN Head(users)
         ELSE FindUser(Tail(users), email)

\* A call to the remote platform: the credentials it is made with, what it
\* sends, and what comes back ("" when it raises).
Call(op, keys, arg, ret) == [op |-> op, keys |-> keys, arg |-> arg, ret |-> ret]

Log(msg, level) == [msg |-> msg, level |-> level]

\* Where a row goes once its role id is known.
AfterRole(m) == IF m = "create" THEN "create" ELSE "search"

\* Mutant: the exception of a row is not caught and leaves the handler.
NextRow_raise == "crashed"

\* Variant of NextRow that leaves the row loop for the removal of the CSV as
\* soon as a row has ended.
NextRow_cleanup == "cleanup"

\* except Exception: LOGGER.exception(...) at the row boundary (and the
\* continue of a rejected row): the loop goes on with the next row.
NextRow == "rows"

\* Mutant: a failed lookup is remembered under the key.
CacheAfter_negative(cache, k, res) ==
    [cache EXCEPT ![k] = IF res.err = "" THEN res.id ELSE "not-found"]

\* role_cache[cache_key] = _get_role_id(...): the assignment happens only when
\* _get_role_id returns.
CacheAfter(cache, k, res) ==
    IF res.err = "" THEN [cache EXCEPT ![k] = res.id] ELSE cache

\* Mutant: the exception of create_user is logged and not raised again.
AfterCreate_swallow(res) == "invite"

\* create_user raised (logged, raised again) or returned: only then the
\* invitation is sent.
AfterCreate(res) == IF res # NoId THEN "invite" ELSE NextRow

\* Variant of AfterInvite that rolls the created user back when the
\* invitation fails.
AfterInvite_rollback(ok) == IF ok THEN NextRow ELSE "disable"

\* Where send_invitations leaves the row: it returns, or it raises and the
\* handler's except logs; the loop goes on either way, the created user is
\* not touched again.
AfterInvite(ok) == NextRow

TypeOK ==
    /\ pc \in {"idle", "record", "rows", "role", "create", "invite", "search",
               "disable", "cleanup", "done", "crashed", "blocked"}
    /\ recordsLeft \in 0..MaxRecords
    /\ mode \in {"create", "delete", NoMode}
    /\ rowsLeft \in 0..MaxRows
    /\ row \in Rows \cup {NoRow}
    /\ role_cache \in [CacheKeys -> {""} \cup {r.id : r \in UNION {RolesOf(org_map[o]) : o \in OrgNames}}]
    /\ user_id \in UserIds \cup {NoId}

Init ==
    /\ pc = "idle"
    /\ recordsLeft = 0
    /\ key = NoKey
    /\ mode = NoMode
    /\ s3log = <<>>
    /\ rowsLeft = 0
    /\ row = NoRow
    /\ role_cache = EmptyCache
    /\ user_id = NoId
    /\ calls = <<>>
    /\ outcome = NoOutcome
    /\ resp = NoResp
    /\ rpc = "idle"
    /\ orgs = <<>>
    /\ org_idx = 0
    /\ url = NoUrl
    /\ params = NoParams
    /\ requests = <<>>
    /\ pages = <<>>
    /\ yielded = <<>>
    /\ pending = <<>>
    /\ result = NoResult
    /\ response = NoResponse
    /\ error = NoError
    /\ mpc = "idle"
    /\ csv_rows = <<>>
    /\ fetched = NoFiles
    /\ files = NoFiles
    /\ todo = <<>>
    /\ posted = <<>>

\* ------------------------------------------------------------ lambda_handler
\* The handler is invoked with an event of n records; with none it returns.
\* Every local starts afresh, role_cache included.
Invoke ==
    /\ UNCHANGED <<report_vars, monitor_vars>>
    /\ resp' = NoResp
    /\ pc \in {"idle", "done", "crashed"}
    /\ \E n \in 0..MaxRecords :
         /\ recordsLeft' = n
         /\ pc' = IF n = 0 THEN "done" ELSE "record"
    /\ role_cache' = NewCache(role_cache)
    /\ key' = NoKey
    /\ mode' = NoMode
    /\ s3log' = <<>>
    /\ rowsLeft' = 0
    /\ row' = NoRow
    /\ user_id' = NoId
    /\ calls' = <<>>
    /\ outcome' = NoOutcome

\* The secret cannot be read (or SECRET_NAME is unset): the exception leaves
\* the handler.
SecretFails ==
    /\ UNCHANGED <<report_vars, monitor_vars>>
    /\ resp' = NoResp
    /\ pc \in {"idle", "done", "crashed"}
    /\ \E n \in 1..MaxRecords : recordsLeft' = n
    /\ pc' = "crashed"
    /\ role_cache' = EmptyCache
    /\ key' = NoKey
    /\ mode' = NoMode
    /\ s3log' = <<>>
    /\ rowsLeft' = 0
    /\ row' = NoRow
    /\ user_id' = NoId
    /\ calls' = <<>>
    /\ outcome' = NoOutcome

\* for record in records: a key with neither suffix is passed over.
SkipRecord ==
    /\ UNCHANGED <<report_vars, monitor_vars>>
    /\ resp' = NoResp
    /\ pc = "record"
    /\ recordsLeft > 0
    /\ \E k \in EventKeys :
         /\ ModeOf(unquote_plus(k)) = NoMode
         /\ key' = unquote_plus(k)
         /\ mode' = NoMode
    /\ recordsLeft' = recordsLeft - 1
    /\ s3log' = <<>>
    /\ rowsLeft' = 0
    /\ row' = NoRow
    /\ user_id' = NoId
    /\ calls' = <<>>
    /\ outcome' = NoOutcome
    /\ pc' = "record"
    /\ UNCHANGED <<role_cache>>

\* s3.get_object(...) read and split into lines: a CSV of n data rows, or
\* an exception nothing catches.
GetObject ==
    /\ UNCHANGED <<report_vars, monitor_vars>>
    /\ resp' = NoResp
    /\ pc = "record"
    /\ recordsLeft > 0
    /\ \E k \in EventKeys :
         /\ ModeOf(unquote_plus(k)) # NoMode
         /\ key' = unquote_plus(k)
         /\ mode' = ModeOf(unquote_plus(k))
    /\ recordsLeft' = recordsLeft - 1
    /\ \E ok \in BOOLEAN :
         /\ s3log' = <<[op |-> "get_object", ok |-> ok]>>
         /\ IF ok
            THEN pc' = "rows" /\ rowsLeft' \in 0..MaxRows
            ELSE pc' = "crashed" /\ rowsLeft' = 0
    /\ row' = NoRow
    /\ user_id' = NoId
    /\ calls' = <<>>
    /\ outcome' = NoOutcome
    /\ UNCHANGED <<role_cache>>

\* The record loop is exhausted: the handler returns.
EndRecords ==
    /\ UNCHANGED <<report_vars, monitor_vars>>
    /\ resp' = NoResp
    /\ pc = "record"
    /\ recordsLeft = 0
    /\ pc' = "done"
    /\ UNCHANGED <<recordsLeft, key, mode, s3log, rowsLeft, row,
                   role_cache, user_id, calls, outcome>>

\* for row in csv_rows: the reader yields the next row and the loop body runs
\* up to the role cache test.
ReadRow ==
    /\ UNCHANGED <<report_vars, monitor_vars>>
    /\ resp' = NoResp
    /\ pc = "rows"
    /\ rowsLeft > 0
    /\ rowsLeft' = rowsLeft - 1
    /\ \E cells \in Rows :
         /\ row' = cells
         /\ LET p == ParseRow(cells) IN
            IF p.err = "AttributeError"
            THEN pc' = "crashed" /\ outcome' = NoOutcome
            ELSE IF p.err # ""
            THEN pc' = NextRow /\ outcome' = Log(p.err, "error")
            ELSE /\ outcome' = NoOutcome
                 /\ pc' = IF CacheMiss(role_cache, cache_key(cells))
                          THEN "role" ELSE AfterRole(mode)
    /\ user_id' = NoId
    /\ calls' = <<>>
    /\ UNCHANGED <<recordsLeft, key, mode, s3log, role_cache>>

\* role_cache[cache_key] = _get_role_id(keys, role_name), inside try/except
RoleLookup ==
    /\ UNCHANGED <<report_vars, monitor_vars>>
    /\ pc = "role"
    /\ \E r \in RoleResponses(ParseRow(row).keys) :
         LET res == get_role_id(r, ParseRow(row).role_name) IN
         /\ resp' = r
         /\ calls' = Append(calls,
               Call("list_roles", ParseRow(row).keys, <<>>,
                    IF r.raises THEN "" ELSE "ok"))
         /\ role_cache' = CacheAfter(role_cache, cache_key(row), res)
         /\ IF res.err = ""
            THEN pc' = AfterRole(mode) /\ outcome' = outcome
            ELSE pc' = NextRow /\ outcome' = Log("RoleLookupFailed", "error")
    /\ UNCHANGED <<recordsLeft, key, mode, s3log, rowsLeft, row, user_id>>

\* create_user(body) raises, or returns the new user (create_resp.data.id)
CreateResults == UserIds \cup {NoId}

\* create_and_invite_user, step 1: users_api.create_user(body)
CreateUser ==
    /\ UNCHANGED <<report_vars, monitor_vars>>
    /\ pc = "create"
    /\ resp' = NoResp
    /\ \E res \in CreateResults :
         /\ calls' = Append(calls,
               Call("create_user", ParseRow(row).keys,
                    [name |-> ParseRow(row).name, email |-> ParseRow(row).email,
                     role_id |-> role_cache[cache_key(row)]],
                    res))
         /\ pc' = AfterCreate(res)
         /\ IF res # NoId
            THEN user_id' = res /\ outcome' = outcome
            ELSE user_id' = user_id /\ outcome' = Log("CreateFailed", "error")
    /\ UNCHANGED <<recordsLeft, key, mode, s3log, rowsLeft, row, role_cache>>

\* create_and_invite_user, step 2: users_api.send_invitations(invite_body)
SendInvitations ==
    /\ UNCHANGED <<report_vars, monitor_vars>>
    /\ pc = "invite"
    /\ resp' = NoResp
    /\ \E ok \in BOOLEAN :
         /\ calls' = Append(calls,
               Call("send_invitations", ParseRow(row).keys, [user_id |-> user_id],
                    IF ok THEN "ok" ELSE ""))
         /\ outcome' = IF ok THEN Log("Invited", "info") ELSE Log("InviteFailed", "error")
         /\ pc' = AfterInvite(ok)
    /\ UNCHANGED <<recordsLeft, key, mode, s3log, rowsLeft, row, role_cache, user_id>>

\* delete_user: the whole user listing, then the search by email
ListUsers ==
    /\ UNCHANGED <<report_vars, monitor_vars>>
    /\ pc = "search"
    /\ \E l \in UserListings :
         /\ resp' = l
         /\ calls' = Append(calls,
               Call("list_users", ParseRow(row).keys, <<>>,
                    IF l.raises THEN "" ELSE "ok"))
         /\ IF l.raises
            THEN user_id' = user_id /\ pc' = NextRow
                 /\ outcome' = Log("DeleteFailed", "error")
            ELSE LET user == FindUser(l.data, ParseRow(row).email) IN
                 IF user = NoUser
                 THEN user_id' = user_id /\ pc' = NextRow
                      /\ outcome' = Log("UserNotFound", "warning")
                 ELSE user_id' = user.id /\ pc' = "disable" /\ outcome' = outcome
    /\ UNCHANGED <<recordsLeft, key, mode, s3log, rowsLeft, row, role_cache>>

\* delete_user: users_api.disable_user(user_id=user.id)
DisableUser ==
    /\ UNCHANGED <<report_vars, monitor_vars>>
    /\ pc = "disable"
    /\ resp' = NoResp
    /\ \E ok \in BOOLEAN :
         /\ calls' = Append(calls,
               Call("disable_user", ParseRow(row).keys, [user_id |-> user_id],
                    IF ok THEN "ok" ELSE ""))
         /\ outcome' = IF ok THEN Log("Disabled", "info") ELSE Log("DeleteFailed", "error")
    /\ pc' = NextRow
    /\ UNCHANGED <<recordsLeft, key, mode, s3log, rowsLeft, row, role_cache, user_id>>

\* The reader is exhausted; the last row's locals are dead from here on.
EndRows ==
    /\ UNCHANGED <<report_vars, monitor_vars>>
    /\ resp' = NoResp
    /\ pc = "rows"
    /\ rowsLeft = 0
    /\ pc' = "cleanup"
    /\ row' = NoRow
    /\ user_id' = NoId
    /\ calls' = <<>>
    /\ outcome' = NoOutcome
    /\ UNCHANGED <<recordsLeft, key, mode, s3log, rowsLeft, role_cache>>

\* s3.delete_object(...), inside try/except: a failure is logged only.
DeleteObject ==
    /\ UNCHANGED <<report_vars, monitor_vars>>
    /\ resp' = NoResp
    /\ pc = "cleanup"
    /\ \E ok \in BOOLEAN :
         s3log' = Append(s3log, [op |-> "delete_object", ok |-> ok])
    /\ pc' = "record"
    /\ UNCHANGED <<recordsLeft, key, mode, rowsLeft, row,
                   role_cache, user_id, calls, outcome>>

Next ==
    \/ Invoke
    \/ SecretFails
    \/ SkipRecord
    \/ GetObject
    \/ EndRecords
    \/ ReadRow
    \/ RoleLookup
    \/ CreateUser
    \/ SendInvitations
    \/ ListUsers
    \/ DisableUser
    \/ EndRows
    \/ DeleteObject

Spec == Init /\ [][Next]_vars

\* ================================================ pending-status reporter
\* status = user.get("attributes", {}).get("status", "").lower();
\* status == "pending"
IsPending(user) ==
    Lower(user.attributes.status) = <<"p", "e", "n", "d", "i", "n", "g">>

\* {"id": user["id"], "email": attributes.get("email"),
\*  "name": attributes.get("name")}
Project(user) ==
    [id |-> user.id, email |-> user.attributes.email, name |-> user.attributes.name]

\* Variant of KeepPending that keeps every user the listing yields.
KeepPending_all(data) == [i \in DOMAIN data |-> Project(data[i])]

\* fetch_invite_pending over the users of one page: those whose status is
\* pending, projected, in the order they are yielded.
RECURSIVE KeepPending(_)
KeepPending(data) ==
    IF data = <<>> THEN <<>>
    ELSE IF IsPending(Head(data))
         THEN <<Project(Head(data))>> \o KeepPending(Tail(data))
         ELSE KeepPending(Tail(data))

\* Variant of NextParams that repeats the query parameters on every request.
NextParams_repeat(p) == p

\* params = None: a next link carries its own query.
NextParams(p) == NoParams

\* Variant of AfterFailure that gives the tenant an empty entry and goes on.
AfterFailure_isolated == "store"

\* except requests.RequestException: ... raise -- and nothing above
\* list_users catches: the exception leaves lambda_handler.
AfterFailure == "failed"


\* Answers to one request; the platform hands out at most MaxPages pages of
\* one listing.
Answers(received) ==
    { [error |-> e, body |-> Body(<<>>, NoUrl)] : e \in Errors }
    \cup { [error |-> NoError, body |-> Body(d, n)] :
             d \in PageData,
             n \in IF received + 1 >= MaxPages THEN {NoUrl}
                   ELSE NextLinks \cup {NoUrl} }

\* lambda_handler is invoked; get_orgs() returns the tenant map.
ReportInvoke ==
    /\ rpc \in {"idle", "returned", "failed"}
    /\ \E m \in TenantMaps : orgs' = m
    /\ rpc' = "tenant"
    /\ org_idx' = 0
    /\ url' = NoUrl
    /\ params' = NoParams
    /\ requests' = <<>>
    /\ pages' = <<>>
    /\ yielded' = <<>>
    /\ pending' = <<>>
    /\ result' = NoResult
    /\ response' = NoResponse
    /\ error' = NoError
    /\ UNCHANGED <<batch_vars, monitor_vars>>

\* get_orgs() raises (the secret cannot be read or has no "orgs").
GetOrgsFails ==
    /\ rpc \in {"idle", "returned", "failed"}
    /\ rpc' = "failed"
    /\ error' = "SecretError"
    /\ orgs' = <<>>
    /\ org_idx' = 0
    /\ url' = NoUrl
    /\ params' = NoParams
    /\ requests' = <<>>
    /\ pages' = <<>>
    /\ yielded' = <<>>
    /\ pending' = <<>>
    /\ result' = NoResult
    /\ response' = NoResponse
    /\ UNCHANGED <<batch_vars, monitor_vars>>

\* for org_name, info in get_orgs().items(): fetch_invite_pending starts
\* list_users, up to its first request.
FetchTenant ==
    /\ rpc = "tenant"
    /\ org_idx < Len(orgs)
    /\ org_idx' = org_idx + 1
    /\ url' = FirstUrl
    /\ params' = FirstParams
    /\ requests' = <<>>
    /\ pages' = <<>>
    /\ yielded' = <<>>
    /\ pending' = <<>>
    /\ rpc' = "request"
    /\ UNCHANGED <<orgs, result, response, error>>
    /\ UNCHANGED <<batch_vars, monitor_vars>>

\* One turn of while url: the request, then the page's users are yielded to
\* fetch_invite_pending, then url and params are set for the next turn.
GetPage ==
    /\ rpc = "request"
    /\ url # NoUrl
    /\ requests' = Append(requests,
          [url |-> url, params |-> params, keys |-> org_map[orgs[org_idx]]])
    /\ \E a \in Answers(Len(pages)) :
         IF a.error # NoError
         THEN /\ error' = a.error
              /\ rpc' = IF AfterFailure = "failed" THEN "failed" ELSE "request"
              /\ url' = IF AfterFailure = "failed" THEN url ELSE NoUrl
              /\ UNCHANGED <<params, pages, yielded, pending>>
         ELSE /\ pages' = Append(pages, a.body)
              /\ yielded' = yielded \o a.body.data
              /\ pending' = pending \o KeepPending(a.body.data)
              /\ url' = a.body.next
              /\ params' = NextParams(params)
              /\ rpc' = "request"
              /\ error' = error
    /\ UNCHANGED <<orgs, org_idx, result, response>>
    /\ UNCHANGED <<batch_vars, monitor_vars>>

\* while url ends, fetch_invite_pending returns pending and the handler
\* stores it: result[org_name] = ...
StoreTenant ==
    /\ rpc = "request"
    /\ url = NoUrl
    /\ result' = [o \in DOMAIN result \cup {orgs[org_idx]} |->
                    IF o = orgs[org_idx] THEN pending ELSE result[o]]
    /\ rpc' = "tenant"
    /\ UNCHANGED <<orgs, org_idx, url, params, requests, pages, yielded,
                   pending, response, error>>
    /\ UNCHANGED <<batch_vars, monitor_vars>>

\* Every tenant is listed: the report is printed and returned.
Return ==
    /\ rpc = "tenant"
    /\ org_idx = Len(orgs)
    /\ response' = [statusCode |-> 200, body |-> result]
    /\ rpc' = "returned"
    /\ UNCHANGED <<orgs, org_idx, url, params, requests, pages, yielded,
                   pending, result, error>>
    /\ UNCHANGED <<batch_vars, monitor_vars>>

ReportNext ==
    \/ ReportInvoke
    \/ GetOrgsFails
    \/ FetchTenant
    \/ GetPage
    \/ StoreTenant
    \/ Return

ReportSpec == Init /\ [][ReportNext]_vars

\* ============================================ a platform that never answers
\* The timeout each remote call is made with: the batch handler passes none
\* to urllib3 (the role listing) or to the SDK calls; the reporter's
\* requests.get is given timeout=10.
NoTimeout == "None"
REQUEST_TIMEOUT == 10

TimeoutOf(op) == IF op = "list_pending" THEN REQUEST_TIMEOUT ELSE NoTimeout

\* The remote call the batch handler makes at each position.
OpAt(p) ==
    CASE p = "role" -> "list_roles"
      [] p = "create" -> "create_user"
      [] p = "invite" -> "send_invitations"
      [] p = "search" -> "list_users"
      [] p = "disable" -> "disable_user"

\* The batch handler issues its remote call and the platform never answers:
\* a call with a timeout raises when it expires and the row fails as on a
\* transport error; a call without one never returns.
RemoteSilent ==
    /\ UNCHANGED <<report_vars, monitor_vars>>
    /\ pc \in {"role", "create", "invite", "search", "disable"}
    /\ calls' = Append(calls, Call(OpAt(pc), ParseRow(row).keys, <<>>, "silent"))
    /\ IF TimeoutOf(OpAt(pc)) = NoTimeout
       THEN pc' = "blocked" /\ outcome' = outcome
       ELSE pc' = NextRow /\ outcome' = Log("TimedOut", "error")
    /\ resp' = NoResp
    /\ UNCHANGED <<recordsLeft, key, mode, s3log, rowsLeft, row, role_cache, user_id>>

TimeoutNext ==
    \/ Invoke
    \/ SecretFails
    \/ SkipRecord
    \/ GetObject
    \/ EndRecords
    \/ ReadRow
    \/ RoleLookup
    \/ CreateUser
    \/ SendInvitations
    \/ ListUsers
    \/ DisableUser
    \/ EndRows
    \/ DeleteObject
    \/ RemoteSilent

TimeoutSpec == Init /\ [][TimeoutNext]_vars

\* ======================================== monitor export/import utility
\* {k: v for k, v in payload.items() if k not in READ_ONLY_KEYS}
sanitize_monitor(payload) ==
    [k \in DOMAIN payload \ READ_ONLY_KEYS |-> payload[k]]

\* Orders in which glob can return the files of the directory.
GlobOrders(ids) ==
    { s \in UNION { [1..n -> ids] : n \in {Cardinality(ids)} } :
        \A i, j \in DOMAIN s : i # j => s[i] # s[j] }

\* export <csv_file>: the header is read; one that does not start with "id"
\* ends the run.
ExportStart ==
    /\ mpc \in {"idle", "done"}
    /\ \E header_ok \in BOOLEAN :
         IF header_ok
         THEN mpc' = "export" /\ csv_rows' \in CsvFiles(MaxCsvRows)
         ELSE mpc' = "done" /\ csv_rows' = <<>>
    /\ fetched' = NoFiles
    /\ todo' = <<>>
    /\ posted' = <<>>
    /\ UNCHANGED files
    /\ UNCHANGED <<batch_vars, report_vars>>

\* for row in reader: an empty row and a row whose first cell is no integer
\* are passed over; otherwise the monitor is fetched, sanitized and written
\* to <id>.json; a failure of any of these is logged.
ExportRow ==
    /\ mpc = "export"
    /\ csv_rows # <<>>
    /\ csv_rows' = Tail(csv_rows)
    /\ LET cell == Head(csv_rows) IN
       IF cell \notin MonitorIds
       THEN UNCHANGED <<fetched, files>>
       ELSE \/ UNCHANGED <<fetched, files>>
            \/ \E monitor \in MonitorDicts :
                 /\ fetched' = [i \in DOMAIN fetched \cup {cell} |->
                                  IF i = cell THEN monitor ELSE fetched[i]]
                 /\ files' = [i \in DOMAIN files \cup {cell} |->
                                IF i = cell THEN Dump(sanitize_monitor(monitor))
                                ELSE files[i]]
    /\ UNCHANGED <<mpc, todo, posted>>
    /\ UNCHANGED <<batch_vars, report_vars>>

\* The CSV is exhausted.
ExportEnd ==
    /\ mpc = "export"
    /\ csv_rows = <<>>
    /\ mpc' = "done"
    /\ UNCHANGED <<csv_rows, fetched, files, todo, posted>>
    /\ UNCHANGED <<batch_vars, report_vars>>

\* Between runs the operator puts a monitor JSON of their own in the
\* directory (the documented input of import), or removes a file.
EditFiles ==
    /\ mpc \in {"idle", "done"}
    /\ \E i \in MonitorIds :
         \/ \E d \in MonitorDicts :
              files' = [j \in DOMAIN files \cup {i} |->
                          IF j = i THEN Dump(d) ELSE files[j]]
         \/ /\ i \in DOMAIN files
            /\ files' = [j \in DOMAIN files \ {i} |-> files[j]]
    /\ mpc' = "idle"
    /\ csv_rows' = <<>>
    /\ fetched' = NoFiles
    /\ todo' = <<>>
    /\ posted' = <<>>
    /\ UNCHANGED <<batch_vars, report_vars>>

\* import <pattern>: glob; without a match the run ends.
ImportStart ==
    /\ mpc \in {"idle", "done"}
    /\ todo' \in GlobOrders(DOMAIN files)
    /\ mpc' = IF DOMAIN files = {} THEN "done" ELSE "import"
    /\ csv_rows' = <<>>
    /\ fetched' = NoFiles
    /\ posted' = <<>>
    /\ UNCHANGED files
    /\ UNCHANGED <<batch_vars, report_vars>>

\* for file_path in files: the JSON is loaded, sanitized and posted; a
\* failure of any of these is logged.
ImportFile ==
    /\ mpc = "import"
    /\ todo # <<>>
    /\ todo' = Tail(todo)
    /\ \/ posted' = Append(posted, sanitize_monitor(files[Head(todo)]))
       \/ posted' = posted
    /\ UNCHANGED <<mpc, csv_rows, fetched, files>>
    /\ UNCHANGED <<batch_vars, report_vars>>

\* Every matched file was read.
ImportEnd ==
    /\ mpc = "import"
    /\ todo = <<>>
    /\ mpc' = "done"
    /\ UNCHANGED <<csv_rows, fetched, files, todo, posted>>
    /\ UNCHANGED <<batch_vars, report_vars>>

MonitorNext ==
    \/ ExportStart
    \/ ExportRow
    \/ ExportEnd
    \/ EditFiles
    \/ ImportStart
    \/ ImportFile
    \/ ImportEnd

MonitorSpec == Init /\ [][MonitorNext]_vars



\* =================================================================== claims
\* A cell that gives no value: absent from the row, empty, or whitespace only.
Blank(c) == c = None \/ \A i \in DOMAIN c : c[i] = " "

\* The row's tenant name is a key of the tenant map.
TenantKnown(r) == r.org # None /\ Strip(r.org) \in DOMAIN org_map

\* The row being processed has ended and the loop is about to take the next.
RowDone == pc = "rows" /\ row # NoRow

Ops == [i \in DOMAIN calls |-> calls[i].op]

CallsOf(op) == { i \in DOMAIN calls : calls[i].op = op }

Last(s) == s[Len(s)]

\* A remote call is made in this step.
CallMade == Len(calls') = Len(calls) + 1

C2_Original ==
    (RowDone /\ ~Blank(row.org) /\ ~TenantKnown(row))
    => (outcome.msg = "UnknownOrg" /\ calls = <<>>)

\* C2 as amended: for every row (Create or Delete) whose tenant name is not a
\* key of the tenant map, no remote call is made and the row does not succeed;
\* it is logged as an unknown tenant when its email, tenant and role cells are
\* non-empty (a row with one of them empty fails for the missing field).
C2_UnknownTenant ==
    (row # NoRow /\ row.org # None /\ ~TenantKnown(row))
    => /\ calls = <<>>
       /\ pc \in {"rows", "crashed"}
       /\ outcome.level \in {"error", ""}
       /\ pc = "rows" => outcome.level = "error"
       /\ (~Blank(row.email) /\ ~Blank(row.org) /\ ~Blank(row.role))
          => (pc = "rows" /\ outcome = Log("UnknownOrg", "error"))

\* Witness of C2: a row of an unknown tenant, rejected as such, in either mode.
C2_Witness ==
    /\ RowDone
    /\ row.org = <<"z">>
    /\ outcome.msg = "UnknownOrg"
    /\ mode = "delete"
    /\ rowsLeft > 0

\* ----------------------------------------------------------------------- C3
\* C3: a step that makes a remote call for a row (role listing, create,
\* invite, user search, disable), whether the call fails or not, never leaves
\* the row loop: the handler does not crash, the rows not yet read stay to be
\* read, and when the call fails the loop is at its head for the next row.
C3_FailureIsolated ==
    [][CallMade
       => /\ pc' # "crashed"
          /\ rowsLeft' = rowsLeft
          /\ recordsLeft' = recordsLeft
          /\ (outcome'.level = "error" \/ Last(calls').ret = "")
             => (pc' = "rows" /\ outcome'.level = "error")]_vars

\* Witness of C3: a remote call has failed and another row is still to come.
C3_Witness ==
    /\ RowDone
    /\ calls # <<>>
    /\ Last(calls).ret = ""
    /\ outcome.level = "error"
    /\ rowsLeft > 0

\* ----------------------------------------------------------------------- C4
\* C4 as stated: a row that is missing a required field (the cell empty,
\* whitespace only, or absent from the row) is rejected as a validation
\* failure before any remote call, and the rows after it are still attempted.
C4_MissingFieldRejected ==
    (/\ row # NoRow
     /\ rowsLeft > 0
     /\ \/ Blank(row.email)
        \/ Blank(row.org)
        \/ (mode = "create" /\ Blank(row.role)))
    => /\ pc = "rows"
       /\ outcome.level = "error"
       /\ outcome.msg \in {"MissingEmail", "MissingOrgRole"}
       /\ calls = <<>>

\* ----------------------------------------------------------------------- C5
\* The handler is inside an invocation.
InInvocation == pc \notin {"idle", "done", "crashed"}

\* C5: within one invocation, once a (tenant name, role name) key holds a role
\* id in the cache, the entry never changes, no role listing is issued for a
\* row with that key, and a create call made for a row carries the role id
\* cached under the row's key.
C5_CachedRoleReused ==
    [][InInvocation
       => /\ \A k \in CacheKeys :
               role_cache[k] # "" => role_cache'[k] = role_cache[k]
          /\ (CallMade /\ Last(calls').op = "list_roles")
             => role_cache[cache_key(row)] = ""
          /\ (CallMade /\ Last(calls').op = "create_user")
             => /\ Last(calls').arg.role_id = role_cache[cache_key(row)]
                /\ Last(calls').arg.role_id # ""]_vars

\* Witness of C5: a row is about to create its user with a role id found in
\* the cache, without any role listing made for this row.
C5_Witness ==
    /\ pc = "create"
    /\ calls = <<>>
    /\ role_cache[cache_key(row)] = "rx2"

\* ----------------------------------------------------------------------- C6
\* C6: a role lookup that fails (the listing raises, answers a status of 300
\* or more, or lists no matching role) leaves the cache entry of the key empty
\* and ends the row with the listing as its only remote call; the next row
\* that has the same key goes to the role lookup, and the role lookup issues a
\* role listing.
C6_FailedLookupNotCached ==
    [][/\ outcome.msg = "RoleLookupFailed"
          => /\ pc = "rows"
             /\ role_cache[cache_key(row)] = ""
             /\ Ops = <<"list_roles">>
       /\ (/\ outcome.msg = "RoleLookupFailed"
           /\ rowsLeft' = rowsLeft - 1
           /\ ParseRow(row').err = ""
           /\ cache_key(row') = cache_key(row))
          => pc' = "role"
       /\ pc = "role"
          => (CallMade /\ Last(calls').op = "list_roles")]_vars

\* Witness of C6: the listing answered with roles, none of them matching, the
\* row has failed and another row is to come.
C6_Witness ==
    /\ RowDone
    /\ outcome.msg = "RoleLookupFailed"
    /\ resp.status = 200
    /\ resp.data # <<>>
    /\ role_cache[cache_key(row)] = ""
    /\ rowsLeft > 0

\* ----------------------------------------------------------------------- C7
\* The role listing has just been answered.
LookedUp == calls # <<>> /\ Last(calls).op = "list_roles" /\ resp # NoResp

\* The positions of a listing whose role name equals n up to letter case.
Matching(data, n) == { i \in DOMAIN data : Lower(data[i].name) = Lower(n) }

Min(S) == CHOOSE x \in S : \A y \in S : x <= y

\* The names that differ from n in letter case only.
CaseVariants(n) ==
    { v \in [DOMAIN n -> {"R", "r", "Q", "q"}] : Lower(v) = Lower(n) }

\* C7: on a listing answered with a 2xx status, the role id resolved for a
\* name is the id of the first listed role whose name equals it up to letter
\* case; every name that differs from it in letter case only resolves alike;
\* and when no listed role matches the lookup fails with a KeyError (role not
\* found).
C7_RoleMatching ==
    (LookedUp /\ ~resp.raises /\ resp.status < 300)
    => LET n == Strip(row.role)
           m == Matching(resp.data, n)
       IN /\ m = {}
             => /\ get_role_id(resp, n) = RoleResult("KeyError", "")
                /\ outcome.msg = "RoleLookupFailed"
          /\ m # {}
             => /\ get_role_id(resp, n) = RoleResult("", resp.data[Min(m)].id)
                /\ role_cache[cache_key(row)] = resp.data[Min(m)].id
                /\ pc \in {"create", "search"}
          /\ \A v \in CaseVariants(n) : get_role_id(resp, v) = get_role_id(resp, n)

\* Witness of C7: the requested name R matches the listed role r, which is
\* listed before the role R and after a role that does not match.
C7_Witness ==
    /\ LookedUp
    /\ Strip(row.role) = <<"R">>
    /\ Len(resp.data) = 3
    /\ resp.data[1].name = <<"Q">>
    /\ resp.data[2].name = <<"r">>
    /\ role_cache[cache_key(row)] = "rx2"

\* ----------------------------------------------------------------------- C8
\* The user listing has just been answered.
Searched == calls # <<>> /\ Last(calls).op = "list_users"

\* C8: in the delete flow, when the listing is answered and no listed user has
\* the row's email up to letter case, and only then, the row ends with the
\* warning "User not found"; in that case no disable call is issued and the
\* loop goes on with the next row.
C8_UserNotFound ==
    /\ (Searched /\ ~resp.raises)
       => LET m == { i \in DOMAIN resp.data :
                       Lower(resp.data[i].email) = Lower(Strip(row.email)) }
          IN m = {} <=> outcome = Log("UserNotFound", "warning")
    /\ outcome.msg = "UserNotFound"
       => /\ outcome.level = "warning"
          /\ mode = "delete"
          /\ pc = "rows"
          /\ Searched
          /\ CallsOf("disable_user") = {}

\* Witness of C8: the listing holds users, none with the row's email.
C8_Witness ==
    /\ Searched
    /\ resp.data # <<>>
    /\ outcome.msg = "UserNotFound"
    /\ rowsLeft > 0

\* ----------------------------------------------------------------------- C9
\* C9 as stated: a Delete row with a non-empty email and a tenant of the
\* tenant map is not rejected for its role, and goes to the user search
\* without a role lookup.
C9_DeleteNeedsOnlyEmail ==
    (RowDone /\ mode = "delete" /\ ~Blank(row.email) /\ TenantKnown(row))
    => /\ outcome.msg \notin {"MissingOrgRole", "RoleLookupFailed"}
       /\ CallsOf("list_roles") = {}
       /\ CallsOf("list_users") # {}

\* ---------------------------------------------------------------------- C10
\* s ends with suffix: s is some prefix followed by suffix.
HasSuffix(s, suffix) ==
    \E n \in 0..Len(s) : s = SubSeq(s, 1, n) \o suffix

\* C10: a record whose object name ends with create_user.csv is processed in
\* create mode, one whose name ends with delete_user.csv in delete mode; for
\* any other name the record is passed over: no S3 call is made for it
\* (neither get_object nor delete_object), no row is read and no remote call
\* is made.
C10_ModeRouting ==
    key # NoKey
    => /\ HasSuffix(key, CREATE_SUFFIX) => mode = "create"
       /\ HasSuffix(key, DELETE_SUFFIX) => mode = "delete"
       /\ mode # NoMode
          => (s3log # <<>> /\ s3log[1].op = "get_object")
       /\ (~HasSuffix(key, CREATE_SUFFIX) /\ ~HasSuffix(key, DELETE_SUFFIX))
          => /\ mode = NoMode
             /\ s3log = <<>>
             /\ row = NoRow
             /\ calls = <<>>
             /\ pc \in {"record", "done"}

\* Witness of C10: a record named create_user.csv.bak has been passed over.
C10_Witness ==
    /\ key = CREATE_SUFFIX \o <<".", "b", "a", "k">>
    /\ mode = NoMode
    /\ pc = "record"
    /\ s3log = <<>>

\* ---------------------------------------------------------------------- C11
\* The delete_object calls issued for the current record.
Deletes == { i \in DOMAIN s3log : s3log[i].op = "delete_object" }

\* The rows of the current record were handed to the row loop.
RowsStarted == s3log # <<>> /\ s3log[1].op = "get_object" /\ s3log[1].ok

\* C11 as stated: once the row loop of a create or delete record has started,
\* the handler does not leave that record (for the next record, by returning
\* or by an exception) without having issued exactly one delete_object for
\* it, whatever the rows contain.
C11_SourceRemovedOnce ==
    /\ Cardinality(Deletes) <= 1
    /\ (RowsStarted /\ pc \in {"record", "done", "crashed"})
       => Cardinality(Deletes) = 1

\* ---------------------------------------------------------------------- C14
\* The last remote call of the current row was op and it failed.
LastFailed(op) ==
    calls # <<>> /\ Last(calls).op = op /\ Last(calls).ret \in {NoId, ""}

\* C14: when create_user fails, no invitation is issued for the row and the
\* row is logged as failed; when create_user returned a user and
\* send_invitations fails, the row is logged as failed and no further call
\* (no disable_user, nothing after the invitation) is made for the created
\* user; in both cases the row loop goes on: the handler stands at the loop
\* head with the rows left unchanged, and its next step reads the next row
\* when there is one.
C14_CreateFlowFailures ==
    [][ /\ (pc = "create" /\ CallMade /\ Last(calls').ret = NoId)
           => /\ pc' = "rows" /\ rowsLeft' = rowsLeft
              /\ outcome' = Log("CreateFailed", "error")
              /\ { i \in DOMAIN calls' : calls'[i].op = "send_invitations" } = {}
        /\ (pc = "invite" /\ CallMade /\ Last(calls').ret = "")
           => /\ pc' = "rows" /\ rowsLeft' = rowsLeft
              /\ outcome' = Log("InviteFailed", "error")
              /\ Last(calls').op = "send_invitations"
              /\ calls[Len(calls)].op = "create_user"
              /\ calls[Len(calls)].ret = user_id /\ user_id' = user_id
              /\ { i \in DOMAIN calls' : calls'[i].op = "disable_user" } = {}
        /\ (mode = "create" /\ (LastFailed("create_user") \/ LastFailed("send_invitations")))
           => /\ pc = "rows"
              /\ ~CallMade
              /\ rowsLeft > 0 => (rowsLeft' = rowsLeft - 1 /\ row' \in Rows)
      ]_vars

\* Witness of C14: the user was created, the invitation failed, and another
\* row is still to be read.
C14_Witness ==
    /\ RowDone
    /\ mode = "create"
    /\ rowsLeft > 0
    /\ Ops = <<"list_roles", "create_user", "send_invitations">>
    /\ calls[2].ret = "u1"
    /\ LastFailed("send_invitations")
    /\ outcome = Log("InviteFailed", "error")

\* ---------------------------------------------------------------------- C15
\* Positions of the listed users whose email is the given one up to case.
MatchingUsers(data, email) ==
    { i \in DOMAIN data : Lower(data[i].email) = Lower(email) }

\* C15: in the delete flow, when the listing is answered and holds at least
\* one user whose email equals the row's (stripped) email up to letter case,
\* the handler goes on to disable the first such user of the listing: the
\* next step is one disable_user call with that user's id, it is the only
\* disable call of the row, and the row ends after it; when the listing
\* raises, or the disable call raises, the row is logged as failed.
C15_DisableFirstMatch ==
    [][ /\ (pc = "search" /\ CallMade)
           => /\ Last(calls').op = "list_users"
              /\ resp'.raises
                 => /\ pc' = "rows"
                    /\ outcome' = Log("DeleteFailed", "error")
                    /\ Last(calls').ret = ""
              /\ (~resp'.raises
                  /\ MatchingUsers(resp'.data, Strip(row.email)) # {})
                 => /\ pc' = "disable"
                    /\ user_id' = resp'.data[
                          Min(MatchingUsers(resp'.data, Strip(row.email)))].id
                    /\ { i \in DOMAIN calls' : calls'[i].op = "disable_user" } = {}
        /\ pc = "disable"
           => /\ Searched /\ ~resp.raises
              /\ MatchingUsers(resp.data, Strip(row.email)) # {}
              /\ user_id = resp.data[
                    Min(MatchingUsers(resp.data, Strip(row.email)))].id
              /\ CallMade
              /\ Last(calls').op = "disable_user"
              /\ Last(calls').arg.user_id = user_id
              /\ Cardinality({ i \in DOMAIN calls' :
                                 calls'[i].op = "disable_user" }) = 1
              /\ pc' = "rows"
              /\ Last(calls').ret = ""
                 => outcome' = Log("DeleteFailed", "error")
              /\ Last(calls').ret # ""
                 => outcome' = Log("Disabled", "info")
        /\ (pc = "rows" /\ CallsOf("disable_user") # {}) => ~CallMade
      ]_vars

\* Witness of C15: the listing holds two users with the row's email up to
\* case, u2 before u1, and the handler is about to disable u2.
C15_Witness ==
    /\ pc = "disable"
    /\ mode = "delete"
    /\ Searched
    /\ Cardinality(MatchingUsers(resp.data, Strip(row.email))) = 2
    /\ resp.data[Min(MatchingUsers(resp.data, Strip(row.email)))].id = "u2"
    /\ user_id = "u2"

\* ---------------------------------------------------------------------- C16
\* A run of n spaces.
Spaces(n) == [i \in 1..n |-> " "]

\* t is s with its surrounding whitespace removed: s is t between two runs of
\* spaces, and t neither starts nor ends with a space.
Trimmed(s, t) ==
    /\ \E i, j \in 0..Len(s) : s = Spaces(i) \o t \o Spaces(j)
    /\ t # <<>> => (t[1] # " " /\ t[Len(t)] # " ")

\* C16: in every create_user call of a Create row, the email sent is the
\* row's email cell with its surrounding whitespace removed; the name sent is
\* the row's name cell with its surrounding whitespace removed when that is
\* not empty, and the email sent when the name cell is absent, empty or
\* whitespace only.
C16_NameDefaultsToEmail ==
    \A i \in CallsOf("create_user") :
        /\ mode = "create"
        /\ Trimmed(row.email, calls[i].arg.email)
        /\ calls[i].arg.email # <<>>
        /\ IF Blank(row.name)
           THEN calls[i].arg.name = calls[i].arg.email
           ELSE Trimmed(row.name, calls[i].arg.name)

\* Witness of C16: a row with email " A" and a whitespace-only name was sent
\* to create_user with email "A" and name "A".
C16_Witness ==
    /\ mode = "create"
    /\ row.email = <<" ", "A">>
    /\ row.name = <<" ">>
    /\ CallsOf("create_user") # {}
    /\ \A i \in CallsOf("create_user") :
         calls[i].arg.email = <<"A">> /\ calls[i].arg.name = <<"A">>

\* ---------------------------------------------------------------------- C18
\* C18: an invocation that goes on to its records starts with the empty role
\* cache, whatever the previous invocation had cached; within the invocation a
\* cache entry is filled only by a role lookup of the current row's key, which
\* issues a role listing, so the first row that needs a key in an invocation
\* causes a listing even if an earlier invocation had resolved the key; and
\* the cache is left as it is by every other step, those that pass from one
\* record of the event to the next included.
C18_ColdCachePerInvocation ==
    [][ /\ (~InInvocation /\ InInvocation') => role_cache' = EmptyCache
        /\ InInvocation
           => /\ \A k \in CacheKeys :
                   (role_cache[k] = "" /\ role_cache'[k] # "")
                   => /\ pc = "role"
                      /\ k = cache_key(row)
                      /\ CallMade
                      /\ Last(calls').op = "list_roles"
                      /\ Last(calls').ret = "ok"
              /\ pc # "role" => role_cache' = role_cache
              /\ (pc = "rows" /\ rowsLeft > 0 /\ ParseRow(row').err = ""
                  /\ role_cache[cache_key(row')] = "")
                 => pc' = "role"
              /\ pc = "role"
                 => (CallMade /\ Last(calls').op = "list_roles")
      ]_vars

\* Witness of C18: an invocation has returned with the key (x, R) resolved in
\* its cache; the next invocation starts from this state.
C18_Witness ==
    /\ pc = "done"
    /\ role_cache[<< <<"x">>, <<"R">> >>] = "rx1"

\* ---------------------------------------------------------------------- C12
\* The users of the given pages, page after page.
RECURSIVE Concat(_)
Concat(ps) ==
    IF ps = <<>> THEN <<>> ELSE Head(ps).data \o Concat(Tail(ps))

\* list_users has ended for the current tenant: its loop found no URL.
ListingEnded == rpc = "request" /\ url = NoUrl

\* C12: while a tenant is listed, the users yielded so far are those of the
\* pages received, page after page; the first request goes to the users URL
\* with the page size and the Pending status filter, every later request goes
\* to the next link of the page before it, without parameters, and is made
\* only when that page carried a next link; no page is requested twice; and
\* when the listing ends, after N pages of which only the last carries no
\* next link, exactly N requests were made.
C12_Pagination ==
    rpc \in {"request", "failed"} /\ requests # <<>>
    => /\ yielded = Concat(pages)
       /\ requests[1].url = FirstUrl
       /\ requests[1].params = [size |-> 100, status |-> "Pending"]
       /\ \A i \in 2..Len(requests) :
            /\ pages[i - 1].next # NoUrl
            /\ requests[i].url = pages[i - 1].next
            /\ requests[i].params = NoParams
       /\ Len(requests) = Len(pages) + (IF rpc = "failed" THEN 1 ELSE 0)
       /\ rpc = "request"
          => url = pages[Len(pages)].next
       /\ ListingEnded
          => /\ \A i \in 1..(Len(pages) - 1) : pages[i].next # NoUrl
             /\ pages[Len(pages)].next = NoUrl
             /\ Len(requests) = Len(pages)

\* Witness of C12: a listing of three non-empty pages has ended, the first
\* two linked by different next links.
C12_Witness ==
    /\ ListingEnded
    /\ Len(pages) = 3
    /\ pages[1].next = "next2"
    /\ pages[2].next = "next1"
    /\ \A i \in 1..3 : pages[i].data # <<>>
    /\ pages[1].data # pages[2].data
    /\ Len(requests) = 3
    /\ Len(yielded) = 5

\* ---------------------------------------------------------------------- C13
\* C13: a listing request that fails, for whichever tenant and on whichever
\* page, ends the report handler with that error: the step leaves the handler
\* failed with no response, although entries of tenants listed before may
\* already be stored; from there nothing more is requested or stored for
\* this invocation (the only step left is a new invocation, which starts
\* from an empty result); and a response is returned only by an invocation
\* in which no request failed.
C13_ListingFailureIsFatal ==
    [][ /\ (rpc = "request" /\ Len(requests') = Len(requests) + 1
            /\ Len(pages') = Len(pages))
           => /\ rpc' = "failed"
              /\ error' \in Errors
              /\ response' = NoResponse
              /\ result' = result
        /\ rpc = "failed"
           => /\ response = NoResponse
              /\ rpc' \in {"tenant", "failed"}
              /\ requests' = <<>>
              /\ org_idx' = 0
              /\ result' = NoResult
        /\ rpc' = "returned" => (error' = NoError /\ response'.statusCode = 200)
        /\ response'.statusCode = 200 => rpc' = "returned"
      ]_vars

\* Witness of C13: the first tenant was listed and has pending users stored,
\* and the request for the second page of the second tenant timed out.
C13_Witness ==
    /\ rpc = "failed"
    /\ error = "Timeout"
    /\ Len(orgs) = 2
    /\ org_idx = 2
    /\ DOMAIN result = {orgs[1]}
    /\ result[orgs[1]] # <<>>
    /\ Len(pages) = 1
    /\ Len(requests) = 2
    /\ response = NoResponse

\* ---------------------------------------------------------------------- C17
\* The entry of the tenant listed last is stored; yielded still holds what
\* its listing yielded.
Stored == rpc \in {"tenant", "returned"} /\ org_idx > 0

\* The tenants of the secret's map, and those listed so far.
Tenants == { orgs[i] : i \in DOMAIN orgs }
Listed == { orgs[i] : i \in 1..org_idx }

StatusPending(u) ==
    Lower(u.attributes.status) = <<"p", "e", "n", "d", "i", "n", "g">>

Projected(us) ==
    [i \in DOMAIN us |->
       [id |-> us[i].id, email |-> us[i].attributes.email,
        name |-> us[i].attributes.name]]

\* C17 as stated: the entry stored for a tenant is the sequence of all the
\* users its listing yielded, each projected to id, email and name, and the
\* report returned has exactly one entry per tenant of the map.
C17_Original ==
    /\ Stored
       => /\ DOMAIN result = Listed
          /\ result[orgs[org_idx]] = Projected(yielded)
    /\ rpc = "returned"
       => /\ response.body = result
          /\ DOMAIN response.body = Tenants

\* C17, amended: the entry stored for a tenant is the sequence of the users
\* its listing yielded whose status is pending up to letter case, in the
\* order yielded, each projected to id, email and name (the empty sequence
\* when there is none); an entry stored is not changed afterwards; and the
\* report returned has exactly one entry per tenant of the map.
C17_PendingOnly ==
    /\ [](/\ Stored
             => /\ DOMAIN result = Listed
                /\ result[orgs[org_idx]]
                     = Projected(SelectSeq(yielded, StatusPending))
          /\ rpc = "returned"
             => /\ response.statusCode = 200
                /\ response.body = result
                /\ DOMAIN response.body = Tenants)
    /\ [][ (rpc = "tenant" \/ rpc = "request")
           => \A o \in DOMAIN result :
                (o \in DOMAIN result') /\ (result'[o] = result[o])
         ]_vars

\* Witness of C17: the report of two tenants is returned; the first tenant's
\* listing yielded nothing, the second's yielded a user that is not pending
\* among pending ones.
C17_Witness ==
    /\ rpc = "returned"
    /\ Len(orgs) = 2
    /\ response.body[orgs[1]] = <<>>
    /\ \E i \in DOMAIN yielded : ~StatusPending(yielded[i])
    /\ Len(response.body[orgs[2]]) = 3
    /\ Len(yielded) = 4

\* ---------------------------------------------------------------------- C19
\* C19 as stated: when the platform never answers a remote call of the batch
\* handler, the call ends like a transport failure: the row is logged as
\* failed, the handler is back at the row loop, and it never waits forever.
C19_EveryCallBounded ==
    /\ pc # "blocked"
    /\ (calls # <<>> /\ Last(calls).ret = "silent")
       => (pc = "rows" /\ outcome.level = "error")

\* ---------------------------------------------------------------------- C20
\* C20 as stated: the file export writes for a monitor holds the read-only
\* attributes the monitor was fetched with; and no body posted by import
\* holds a read-only attribute.
C20_ExportKeepsReadOnly ==
    /\ \A i \in DOMAIN fetched :
         (DOMAIN fetched[i] \cap READ_ONLY_KEYS) \subseteq DOMAIN files[i]
    /\ \A n \in DOMAIN posted : DOMAIN posted[n] \cap READ_ONLY_KEYS = {}

\* ---------------------------------------------------------------------- C21
\* The ids of the roles of a tenant of the tenant map.
RoleIdsOf(tenant) == { r.id : r \in RolesOf(org_map[tenant]) }

\* C21: every remote call made for a row carries the credential pair the
\* tenant map holds for the row's own tenant; the role id sent in a create
\* call is the id of a role of that tenant; and every role id in the cache is
\* stored under a key whose tenant name is a tenant of the map and is the id
\* of a role of that tenant, so that a row never takes the id cached for
\* another tenant, whatever the role names.
C21_TenantIsolation ==
    /\ \A i \in DOMAIN calls :
         /\ TenantKnown(row)
         /\ calls[i].keys = org_map[Strip(row.org)]
         /\ calls[i].op = "create_user"
            => /\ calls[i].arg.role_id \in RoleIdsOf(Strip(row.org))
               /\ calls[i].arg.role_id
                    = role_cache[<<Strip(row.org), Strip(row.role)>>]
    /\ \A k \in CacheKeys :
         role_cache[k] # ""
         => /\ k[1] \in DOMAIN org_map
            /\ role_cache[k] \in RoleIdsOf(k[1])

\* Witness of C21: role "r" is cached for tenant x as rx2, and a row of
\* tenant y with the same role name is created with y's role ry1, using y's
\* credentials.
C21_Witness ==
    /\ role_cache[<< <<"x">>, <<"r">> >>] = "rx2"
    /\ Strip(row.org) = <<"y">>
    /\ Strip(row.role) = <<"r">>
    /\ calls # <<>>
    /\ Last(calls).op = "create_user"
    /\ Last(calls).arg.role_id = "ry1"
    /\ Last(calls).keys = <<"api_y", "app_y">>

\* ---------------------------------------------------------------------- C22
\* C22: a delete_object is issued for a record only from the end of its row
\* loop: get_object had returned the CSV, no row of it is left unread, and
\* the last row read has run to its end; at most one delete is issued per
\* record, it is the last S3 call of the record, and a record whose
\* get_object failed has no delete at all.
C22_RemovalOrdering ==
    [][ /\ Len(s3log') = Len(s3log) + 1 /\ Last(s3log').op = "delete_object"
           => /\ pc = "cleanup"
              /\ rowsLeft = 0
              /\ RowsStarted
              /\ Deletes = {}
              /\ calls = <<>> /\ row = NoRow
        /\ pc' = "cleanup" => (pc = "rows" /\ rowsLeft = 0)
        /\ pc \in {"rows", "role", "create", "invite", "search", "disable"}
           => (s3log' = s3log /\ Deletes = {})
        /\ (s3log # <<>> /\ ~s3log[1].ok)
           => (pc = "crashed" /\ Len(s3log) = 1)
        /\ (s3log' # <<>> /\ ~s3log'[1].ok) => Len(s3log') = 1
      ]_vars

\* Witness of C22: the last row of a CSV has ended as a failure, no row is
\* left, and no delete_object has been issued for the CSV so far; the
\* handler's next step leaves the row loop for the delete.
C22_Witness ==
    /\ pc = "rows"
    /\ rowsLeft = 0
    /\ row # NoRow
    /\ outcome.level = "error"
    /\ calls # <<>>
    /\ s3log = <<[op |-> "get_object", ok |-> TRUE]>>

====
